---- MODULE Spec2Model ----
(***************************************************************************)
(* A model of the workflow engine: the workflow run loop, the engine's     *)
(* start-up (storage, data load, concurrent Matrix client bring-up), its   *)
(* lifecycle calls, the poll scheduler, the webhook listener and the bot   *)
(* registry with its invite hook.                                          *)
(***************************************************************************)
EXTENDS Naturals, Sequences, FiniteSets, TLC

VARIABLES
  debug,          \* engine.debug
  workflows,      \* engine.workflows: per id, the workflow's steps (the mock
                  \* steps' impacts, in load order) and its payload
  runs,           \* per call of workflow.run: its position in the loop
  stepLog,        \* history: what each executed step received and returned
  logLines,       \* number of step-error lines engine.log has printed
  isMatrix,       \* engine.isMatrix
  syncKind,       \* the MatrixClient handed to StartUp: how its Sync behaves
  crashed,        \* the process has exited (log.Fatal, a runtime fatal error)
  fatalLogged,    \* log.Fatal or log.Fatalf has printed an error
  dbClosed,       \* e.db has been closed and not opened since
  startUps,       \* number of StartUp calls made
  mainPc,         \* the caller of StartUp and Run: where it is
  wg,             \* StartUp's WaitGroup counter
  initPc,         \* the goroutine running initMatrixClient
  wakePc,         \* the goroutine running wakeUpMatrixBots
  wakeResult,     \* what wakeUpMatrixBots returned
  nBots,          \* number of bots getActiveBots returned (ids 1..nBots)
  spawned,        \* number of bots the wake-up loop has started a task for
  wg2,            \* wakeUpMatrixBots' WaitGroup counter
  botPc,          \* per bot: where its wake-up goroutine is
  botOk,          \* per bot: the outcome of b.WakeUp
  botLocal,       \* per bot: the slice value its append has read
  failedWakeUps,  \* the slice of ids whose wake-up failed
  eBots,          \* engine.bots
  raced,          \* bots whose map write overlapped another one
  dbTriggers,     \* the database's trigger records, in the order loaded
  dbBots,         \* the database's number of active bots (ids 1..dbBots)
  dbWorkflows,    \* the database's workflow records (their ids)
  dbSteps,        \* the database's workflow step records, in the order loaded
  trigEngine,     \* triggers whose engine field is set
  trigWebhook,    \* engine.triggers["webhook"]
  trigPoll,       \* engine.triggers["poll"]
  pollerPc,       \* the goroutine running runPoller
  pollStarted,    \* poll triggers for which a setup goroutine was started
  handlers,       \* per webhook request being served: the request, its
                  \* outcome and the trigger and payload handed to process
  reqCount,       \* number of webhook requests received
  regClients,     \* registry.clients
  primaryUsername, \* registry.primaryUsername
  loginCalls,     \* per client: how many times its Login was called
  hooked,         \* clients whose OnRoomInvite holds the registry's callback
  lastAppend,     \* the latest Append call: its arguments and its error
  appendCount,    \* number of Append calls made
  failedFor,      \* history: usernames an Append failed for at Login or at
                  \* the wiring of the invite hook
  storedAsPrimary, \* history: usernames whose session was stored by the
                  \* Append of a bot marked primary
  homeserverDomain, \* registry.homeserverDomain
  invited,        \* invitations delivered: <<client, room id>>
  joinCalls,      \* JoinRoom calls the invite callback made: <<client, room id>>
  lastInvite      \* the latest invitation: what the callback did with it

wfVars == <<debug, workflows, runs, stepLog, logLines>>

startVars ==
  <<isMatrix, syncKind, crashed, fatalLogged, mainPc, wg, initPc, wakePc, wakeResult>>

botVars == <<nBots, spawned, wg2, botPc, botOk, botLocal, failedWakeUps, eBots, raced>>

trigVars == <<trigEngine, trigWebhook, trigPoll, pollerPc, pollStarted>>

dbVars == <<dbTriggers, dbBots, dbWorkflows, dbSteps>>

whVars == <<handlers, reqCount>>

lifeVars == <<dbClosed, startUps>>

enVars == <<startVars, botVars, trigVars, dbVars, lifeVars, whVars>>

inviteVars == <<homeserverDomain, invited, joinCalls, lastInvite>>

rgVars ==
  <<regClients, primaryUsername, loginCalls, hooked, lastAppend, appendCount,
    failedFor, storedAsPrimary, inviteVars>>

vars == <<wfVars, enVars, rgVars>>

(***************************************************************************)
(* Bounds                                                                  *)
(***************************************************************************)
MaxSteps == 3

MaxBots == 2

MaxTriggers == 2

MaxAppends == 3

MaxRequests == 2

MaxStartUps == 2

(***************************************************************************)
(* Payloads and steps                                                      *)
(***************************************************************************)
Messages == {"", "x", "throw", "throwerr"}

Rooms == {"", "!abc:server"}

Impacts == {"a", "b", "err"}

RunIds == {1, 2}

payloadData(m, r) == [Message |-> m, Room |-> r]

Payloads == {payloadData(m, r) : m \in Messages, r \in Rooms}

RECURSIVE SeqsUpTo(_, _)
SeqsUpTo(S, n) ==
  IF n = 0 THEN {<<>>}
  ELSE LET shorter == SeqsUpTo(S, n - 1)
       IN  shorter \cup {Append(s, x) : s \in {t \in shorter : Len(t) = n - 1}, x \in S}

\* mockWorkflowStep.run: a payload whose message is "throwerr" makes the step
\* fail and return an empty message; otherwise the impact is appended. The
\* returned payload carries no room in either case.
mockRun(impact, p) ==
  IF p.Message = "throwerr"
  THEN [payload |-> payloadData("", ""), err |-> TRUE]
  ELSE [payload |-> payloadData(p.Message \o impact, ""), err |-> FALSE]

\* engine.log: a line is printed only when debug is set.
logOut(n) == IF debug THEN n + 1 ELSE n

WorkflowIds == {1, 2}

\* A workflow as loaded: no step yet, the zero payload.
workflow == [steps |-> <<>>, payload |-> payloadData("", "")]

\* A step put in front of the others.
addWorkflowStepInFront(w, st) == [w EXCEPT !.steps = <<st>> \o @]

\* workflow.addWorkflowStep
addWorkflowStep(w, st) == [w EXCEPT !.steps = Append(@, st)]

IdleRun ==
  [pc |-> "idle", w |-> 0, i |-> 0, p0 |-> payloadData("", ""), arg |-> payloadData("", "")]

(***************************************************************************)
(* workflow.run                                                            *)
(***************************************************************************)
\* w.payload, err = s.run(w.payload, e): the payload kept after a step.
NextPayloadKeepArg(res, arg) == arg

NextPayload(res, arg) == res.payload

\* The loop has no break: after a step, failed or not, it goes on.
AfterStepHalt(err) == IF err THEN "done" ELSE "loop"

AfterStep(err) == "loop"

\* w.payload = payload, before the loop.
RunEnter(r, w, p) ==
  /\ ~crashed
  /\ runs[r].pc = "idle"
  /\ w \in DOMAIN workflows
  /\ workflows' = [workflows EXCEPT ![w].payload = p]
  /\ runs' = [runs EXCEPT ![r] = [pc |-> "loop", w |-> w, i |-> 1, p0 |-> p, arg |-> p]]
  /\ UNCHANGED <<debug, stepLog, logLines>>
  /\ UNCHANGED <<enVars, rgVars>>

\* The call s.run(w.payload, e) of the i-th step: w.payload is read.
RunCall(r) ==
  /\ ~crashed
  /\ runs[r].pc = "loop"
  /\ runs[r].i <= Len(workflows[runs[r].w].steps)
  /\ runs' = [runs EXCEPT ![r].pc = "instep", ![r].arg = workflows[runs[r].w].payload]
  /\ UNCHANGED <<debug, workflows, stepLog, logLines>>
  /\ UNCHANGED <<enVars, rgVars>>

\* The step returns: w.payload is overwritten, an error is logged.
RunReturn(r) ==
  /\ ~crashed
  /\ runs[r].pc = "instep"
  /\ LET w == runs[r].w
         res == mockRun(workflows[w].steps[runs[r].i], runs[r].arg)
     IN  /\ workflows' = [workflows EXCEPT ![w].payload = NextPayload(res, runs[r].arg)]
         /\ logLines' = IF res.err THEN logOut(logLines) ELSE logLines
         /\ stepLog' = Append(stepLog, [run |-> r, w |-> w, idx |-> runs[r].i,
                                        p0 |-> runs[r].p0,
                                        in |-> runs[r].arg, out |-> res.payload,
                                        err |-> res.err])
         /\ runs' = [runs EXCEPT ![r].pc = AfterStep(res.err), ![r].i = @ + 1]
  /\ UNCHANGED debug
  /\ UNCHANGED <<enVars, rgVars>>

\* The range loop is exhausted: run returns.
RunExit(r) ==
  /\ ~crashed
  /\ runs[r].pc = "loop"
  /\ runs[r].i > Len(workflows[runs[r].w].steps)
  /\ runs' = [runs EXCEPT ![r].pc = "done"]
  /\ UNCHANGED <<debug, workflows, stepLog, logLines>>
  /\ UNCHANGED <<enVars, rgVars>>

BotIds == 1..MaxBots

NilClient == 0

EmptyMap == [x \in {} |-> 0]

\* NewEngine: the run parameters are set, nothing else is.
NewEngine(matrix, client) ==
  /\ isMatrix = matrix
  /\ syncKind = client
  /\ crashed = FALSE
  /\ fatalLogged = FALSE
  /\ dbClosed = FALSE
  /\ startUps = 0
  /\ mainPc = "created"
  /\ wg = 0
  /\ initPc = "none"
  /\ wakePc = "none"
  /\ wakeResult = [returned |-> FALSE, ok |-> FALSE, ids |-> <<>>]
  /\ nBots = 0
  /\ spawned = 0
  /\ wg2 = 0
  /\ botPc = [b \in BotIds |-> "none"]
  /\ botOk = [b \in BotIds |-> "none"]
  /\ botLocal = [b \in BotIds |-> <<>>]
  /\ failedWakeUps = <<>>
  /\ eBots = EmptyMap
  /\ raced = {}
  /\ trigEngine = {}
  /\ trigWebhook = EmptyMap
  /\ trigPoll = EmptyMap
  /\ pollerPc = "none"
  /\ pollStarted = {}

\* What the storage holds when the engine starts: triggers, active bots,
\* workflows and workflow steps.
Database(ts, n, ws, ss) ==
  /\ dbTriggers = ts
  /\ dbBots = n
  /\ dbWorkflows = ws
  /\ dbSteps = ss

\* No workflow has been run, nothing was logged.
NoRun ==
  /\ debug \in BOOLEAN
  /\ runs = [r \in RunIds |-> IdleRun]
  /\ stepLog = <<>>
  /\ logLines = 0
  /\ handlers = [r \in RunIds |-> [status |-> "none"]]
  /\ reqCount = 0

Usernames == {"alice", "bob"}

Clients == {"c1", "c2"}

Domains == {"server", "elsewhere"}

\* NewRegistry: the configured homeserver domain, an empty client map and
\* no primary username.
NewRegistry(domain) ==
  /\ homeserverDomain = domain
  /\ invited = {}
  /\ joinCalls = {}
  /\ lastInvite = [client |-> "", room |-> "", did |-> "none"]
  /\ regClients = EmptyMap
  /\ primaryUsername = ""
  /\ loginCalls = [c \in Clients |-> 0]
  /\ hooked = {}
  /\ lastAppend = [user |-> "", client |-> "", err |-> "none"]
  /\ appendCount = 0
  /\ failedFor = {}
  /\ storedAsPrimary = {}

\* A workflow, id 1, with its steps attached, before its first run.
WorkflowInit ==
  /\ NewEngine(FALSE, "mock")
  /\ Database(<<>>, 0, {}, <<>>)
  /\ NewRegistry("server")
  /\ NoRun
  /\ \E st \in SeqsUpTo(Impacts, MaxSteps) :
       workflows = (1 :> [workflow EXCEPT !.steps = st])

WorkflowNext ==
  \/ \E p \in Payloads : RunEnter(1, 1, p)
  \/ RunCall(1)
  \/ RunReturn(1)
  \/ RunExit(1)

WorkflowSpec == WorkflowInit /\ [][WorkflowNext]_vars

(***************************************************************************)
(* Folding a payload through steps by hand                                 *)
(***************************************************************************)
RECURSIVE Fold(_, _)
Fold(p, steps) ==
  IF steps = <<>> THEN p
  ELSE Fold(mockRun(Head(steps), p).payload, Tail(steps))

Reverse(s) == [i \in 1..Len(s) |-> s[Len(s) + 1 - i]]

(***************************************************************************)
(* Claims about workflow.run (checked under WorkflowSpec)                   *)
(***************************************************************************)
NonCommutativeAt(p, steps) == Fold(p, steps) # Fold(p, Reverse(steps))

\* C1: run passes p0 to the first step and each step's result to the next
\* one, and leaves w.payload equal to p0 folded through the steps in load
\* order; for a step pair that does not commute on p0, the reversed order
\* would have given another final payload.
C1_RunFoldsInOrder ==
  LET steps == workflows[1].steps
      p0 == runs[1].p0
  IN  /\ Len(stepLog) >= 1 => stepLog[1].in = p0
      /\ \A k \in 1..Len(stepLog) :
           /\ stepLog[k].out = mockRun(steps[k], stepLog[k].in).payload
           /\ k < Len(stepLog) => stepLog[k + 1].in = stepLog[k].out
      /\ runs[1].pc = "done" =>
           /\ workflows[1].payload = Fold(p0, steps)
           /\ (Len(steps) = 2 /\ NonCommutativeAt(p0, steps))
                => workflows[1].payload # Fold(p0, Reverse(steps))

C1_Witness ==
  /\ runs[1].pc = "done"
  /\ workflows[1].steps = <<"a", "b">>
  /\ runs[1].p0.Message = "x"
  /\ workflows[1].payload.Message = "xab"
  /\ Fold(runs[1].p0, Reverse(workflows[1].steps)).Message = "xba"

\* C2: when step k reports an error, the payload passed into step k+1 is
\* the payload that was passed into step k.
C2_PreStepPayloadAfterError ==
  \A k \in 1..Len(stepLog) :
    (stepLog[k].err /\ k < Len(stepLog)) => stepLog[k + 1].in = stepLog[k].in

\* C3: every step runs exactly once, in sequence order, whichever steps
\* fail; a failure never halts the run, which ends after the last step.
C3_EachStepOnceInOrder ==
  /\ Len(stepLog) <= Len(workflows[1].steps)
  /\ \A k \in 1..Len(stepLog) : stepLog[k].idx = k
  /\ runs[1].pc = "done" => Len(stepLog) = Len(workflows[1].steps)
  /\ runs[1].pc \in {"loop", "instep"} =>
       ENABLED (RunCall(1) \/ RunReturn(1) \/ RunExit(1))

C3_Witness ==
  /\ runs[1].pc = "done"
  /\ Len(stepLog) = 3
  /\ stepLog[2].err
  /\ ~stepLog[3].err

\* The steps executed so far that reported an error.
FailedSteps == {k \in 1..Len(stepLog) : stepLog[k].err}

\* C20: every step that reports an error has a log line printed for it,
\* with debug enabled and with debug disabled.
C20_EveryStepErrorIsLogged == logLines >= Cardinality(FailedSteps)

(***************************************************************************)
(* Engine start-up: StartUpLite                                            *)
(***************************************************************************)
webhookt(n, s, w) ==
  [kind |-> "webhook", name |-> n, urlSuffix |-> s, workflow_id |-> w]

pollt(n) == [kind |-> "poll", name |-> n]

TriggerRecords == {webhookt("w1", "foo", 1), webhookt("w2", "foo", 1), pollt("p1")}

\* log.Fatal that prints and lets the caller go on.
FatalGoesOn == crashed' = crashed /\ fatalLogged' = TRUE

\* log.Fatal: the process exits; no goroutine takes another step.
Fatal == crashed' = TRUE /\ fatalLogged' = TRUE

\* registerWebhookTrigger: t.engine = e, and the suffix is bound to t.
registerWebhookTrigger(st, i, t) ==
  [st EXCEPT !.engine = @ \cup {i}, !.webhook = (t.urlSuffix :> i) @@ @]

\* registerPollTrigger: t.engine = e; the trigger map is not touched.
registerPollTrigger(st, i, t) ==
  [st EXCEPT !.engine = @ \cup {i}]

\* loadData's loop over the configured triggers, from the i-th one on.
RECURSIVE registerTriggers(_, _, _)
registerTriggers(ts, i, st) ==
  IF i > Len(ts) THEN st
  ELSE registerTriggers(ts, i + 1,
         IF ts[i].kind = "webhook" THEN registerWebhookTrigger(st, i, ts[i])
         ELSE registerPollTrigger(st, i, ts[i]))

\* StartUp is called by a caller at pc, up to loadDB: the maps are made,
\* the database is opened and migrated; an error is fatal.
loadDBAt(pc) ==
  /\ ~crashed
  /\ mainPc = pc
  /\ startUps < MaxStartUps
  /\ startUps' = startUps + 1
  /\ \/ /\ mainPc' = "storageConnected"
        /\ dbClosed' = FALSE
        /\ UNCHANGED <<crashed, fatalLogged>>
     \/ /\ Fatal
        /\ UNCHANGED <<mainPc, dbClosed>>
  /\ eBots' = EmptyMap
  /\ workflows' = EmptyMap
  /\ trigWebhook' = EmptyMap
  /\ trigPoll' = EmptyMap
  /\ UNCHANGED <<isMatrix, syncKind, wg, initPc, wakePc, wakeResult>>
  /\ UNCHANGED <<nBots, spawned, wg2, botPc, botOk, botLocal, failedWakeUps, raced>>
  /\ UNCHANGED <<trigEngine, pollerPc, pollStarted>>
  /\ UNCHANGED <<debug, runs, stepLog, logLines>>
  /\ UNCHANGED <<dbVars, whVars, rgVars>>

\* The first StartUp of a constructed engine.
LoadDB == loadDBAt("created")

\* StartUp called again, once an earlier StartUp has returned.
StartUpAgain == loadDBAt("startedUp")

\* ShutDown: e.db.Close(). Before any StartUp e.db is nil and the call
\* panics.
ShutDown ==
  /\ ~crashed
  /\ mainPc \in {"created", "startedUp"}
  /\ IF mainPc = "created"
     THEN crashed' = TRUE /\ UNCHANGED dbClosed
     ELSE dbClosed' = TRUE /\ UNCHANGED crashed
  /\ UNCHANGED <<isMatrix, syncKind, fatalLogged, mainPc, wg, initPc, wakePc, wakeResult>>
  /\ UNCHANGED startUps
  /\ UNCHANGED <<botVars, trigVars, dbVars, whVars, wfVars, rgVars>>

\* handleTOMLDefinitions: an error of parseTOMLDefs is fatal.
HandleTOMLDefinitions ==
  /\ ~crashed
  /\ mainPc = "storageConnected"
  /\ \/ /\ mainPc' = "tomlDone"
        /\ UNCHANGED <<crashed, fatalLogged>>
     \/ /\ Fatal
        /\ UNCHANGED mainPc
  /\ UNCHANGED <<isMatrix, syncKind, wg, initPc, wakePc, wakeResult>>
  /\ UNCHANGED <<botVars, trigVars, dbVars, lifeVars, whVars, wfVars, rgVars>>

\* loadData's loop over the workflow records: each is stored under its id.
loadWorkflows(ids) == [w \in ids |-> workflow]

\* loadData's loop over the step records, from the i-th one on: each step
\* is appended to the workflow its workflow_id names. A workflow_id with no
\* workflow yields a nil *workflow, whose addWorkflowStep panics: the
\* loop ends there, with the steps attached so far.
RECURSIVE loadSteps(_, _, _)
loadSteps(ss, i, wfs) ==
  IF i > Len(ss) THEN [panic |-> FALSE, workflows |-> wfs]
  ELSE IF ss[i].workflow_id \notin DOMAIN wfs THEN [panic |-> TRUE, workflows |-> wfs]
  ELSE loadSteps(ss, i + 1,
         [wfs EXCEPT ![ss[i].workflow_id] = addWorkflowStep(@, ss[i].impact)])

\* loadData: the configured triggers are registered, then the workflows and
\* their steps are loaded; an error of any of the three queries is fatal
\* and ends loadData where it is.
LoadData ==
  /\ ~crashed
  /\ mainPc = "tomlDone"
  /\ LET st == registerTriggers(dbTriggers, 1,
                 [engine |-> trigEngine, webhook |-> trigWebhook, poll |-> trigPoll])
         wfs == (loadWorkflows(dbWorkflows) @@ workflows)
         loaded == loadSteps(dbSteps, 1, wfs)
     IN  \/ /\ Fatal                       \* getConfiguredTriggers fails
            /\ UNCHANGED <<mainPc, trigEngine, trigWebhook, trigPoll, workflows>>
         \/ /\ trigEngine' = st.engine
            /\ trigWebhook' = st.webhook
            /\ trigPoll' = st.poll
            /\ \/ /\ Fatal                 \* getConfiguredWorkflows fails
                  /\ UNCHANGED <<mainPc, workflows>>
               \/ /\ Fatal                 \* getConfiguredWFSteps fails
                  /\ workflows' = wfs
                  /\ UNCHANGED mainPc
               \/ /\ loaded.panic          \* a step of an unknown workflow
                  /\ Fatal
                  /\ workflows' = loaded.workflows
                  /\ UNCHANGED mainPc
               \/ /\ ~loaded.panic
                  /\ workflows' = loaded.workflows
                  /\ mainPc' = "dataLoaded"
                  /\ UNCHANGED <<crashed, fatalLogged>>
  /\ UNCHANGED <<isMatrix, syncKind, wg, initPc, wakePc, wakeResult>>
  /\ UNCHANGED <<pollerPc, pollStarted>>
  /\ UNCHANGED <<debug, runs, stepLog, logLines>>
  /\ UNCHANGED <<botVars, dbVars, lifeVars, whVars, rgVars>>

(***************************************************************************)
(* Engine start-up: StartUp and its two goroutines                         *)
(***************************************************************************)
\* wg.Wait() returns when the counter is zero.
WaitReturnsAtOnce(n) == TRUE

WaitReturns(n) == n = 0

\* StartUp with isMatrix: both goroutines are started (wg.Add(1) before
\* each), and StartUp goes on to wg.Wait().
StartUpSpawn ==
  /\ ~crashed
  /\ mainPc = "dataLoaded"
  /\ isMatrix
  /\ wg' = wg + 2
  /\ initPc' = "login"
  /\ wakePc' = "getBots"
  /\ mainPc' = "wait"
  /\ UNCHANGED <<isMatrix, syncKind, crashed, fatalLogged, wakeResult>>
  /\ UNCHANGED <<botVars, trigVars, dbVars, lifeVars, whVars, wfVars, rgVars>>

\* StartUp without isMatrix: nothing to start, StartUp returns.
StartUpNoMatrix ==
  /\ ~crashed
  /\ mainPc = "dataLoaded"
  /\ ~isMatrix
  /\ mainPc' = "startedUp"
  /\ UNCHANGED <<isMatrix, syncKind, crashed, fatalLogged, wg, initPc, wakePc, wakeResult>>
  /\ UNCHANGED <<botVars, trigVars, dbVars, lifeVars, whVars, wfVars, rgVars>>

\* wg.Wait() returns, and StartUp with it.
StartUpWait ==
  /\ ~crashed
  /\ mainPc = "wait"
  /\ WaitReturns(wg)
  /\ mainPc' = "startedUp"
  /\ UNCHANGED <<isMatrix, syncKind, crashed, fatalLogged, wg, initPc, wakePc, wakeResult>>
  /\ UNCHANGED <<botVars, trigVars, dbVars, lifeVars, whVars, wfVars, rgVars>>

\* initMatrixClient: e.client = c and the login; a login error is returned
\* to the goroutine, which makes it fatal.
InitLogin ==
  /\ ~crashed
  /\ initPc = "login"
  /\ \/ /\ initPc' = "sync"
        /\ UNCHANGED <<crashed, fatalLogged>>
     \/ /\ Fatal
        /\ UNCHANGED initPc
  /\ UNCHANGED <<isMatrix, syncKind, mainPc, wg, wakePc, wakeResult>>
  /\ UNCHANGED <<botVars, trigVars, dbVars, lifeVars, whVars, wfVars, rgVars>>

\* e.client.Sync() of the mock client returns nil at once: initMatrixClient
\* returns nil and the goroutine ends (wg.Done()).
InitSyncReturnsNil ==
  /\ ~crashed
  /\ initPc = "sync"
  /\ syncKind = "mock"
  /\ initPc' = "done"
  /\ wg' = wg - 1
  /\ UNCHANGED <<isMatrix, syncKind, crashed, fatalLogged, mainPc, wakePc, wakeResult>>
  /\ UNCHANGED <<botVars, trigVars, dbVars, lifeVars, whVars, wfVars, rgVars>>

\* e.client.Sync() of a long-running client returns only with an error,
\* which initMatrixClient returns and the goroutine makes fatal.
InitSyncReturnsError ==
  /\ ~crashed
  /\ initPc = "sync"
  /\ syncKind = "longRunning"
  /\ Fatal
  /\ UNCHANGED <<isMatrix, syncKind, mainPc, wg, initPc, wakePc, wakeResult>>
  /\ UNCHANGED <<botVars, trigVars, dbVars, lifeVars, whVars, wfVars, rgVars>>

(***************************************************************************)
(* wakeUpMatrixBots                                                        *)
(***************************************************************************)
\* Bot.WakeUp: the bot's client is brought online (login and invite
\* wiring); it yields the bot's own session, or an error and no client.
WakeUpOutcomes(b) == {[c |-> b, err |-> FALSE], [c |-> NilClient, err |-> TRUE]}

\* What an unsynchronised map write that overlapped another one can do: the
\* entry is stored, the entry is lost, or the runtime ends the process
\* ("fatal error: concurrent map writes").
MapWriteOutcomes(overlapped) ==
  IF overlapped THEN {"stored", "lost", "fatal"} ELSE {"stored"}

\* getActiveBots: an error is returned at once (and is fatal in StartUp's
\* goroutine); otherwise the loop over the bots starts.
WakeGetBots ==
  /\ ~crashed
  /\ wakePc = "getBots"
  /\ \/ /\ nBots' = dbBots
        /\ wakePc' = "loop"
        /\ UNCHANGED <<crashed, fatalLogged>>
     \/ /\ Fatal
        /\ UNCHANGED <<nBots, wakePc>>
  /\ UNCHANGED <<isMatrix, syncKind, mainPc, wg, initPc, wakeResult>>
  /\ UNCHANGED <<spawned, wg2, botPc, botOk, botLocal, failedWakeUps, eBots, raced>>
  /\ UNCHANGED <<trigVars, dbVars, lifeVars, whVars, wfVars, rgVars>>

\* One iteration of the loop: wg.Add(1) and go func(b Bot).
WakeSpawn ==
  /\ ~crashed
  /\ wakePc = "loop"
  /\ spawned < nBots
  /\ spawned' = spawned + 1
  /\ wg2' = wg2 + 1
  /\ botPc' = [botPc EXCEPT ![spawned + 1] = "wakeUp"]
  /\ UNCHANGED <<nBots, botOk, botLocal, failedWakeUps, eBots, raced>>
  /\ UNCHANGED <<startVars, trigVars, dbVars, lifeVars, whVars, wfVars, rgVars>>

\* The loop is over: wakeUpMatrixBots goes on to wg.Wait().
WakeLoopEnd ==
  /\ ~crashed
  /\ wakePc = "loop"
  /\ spawned = nBots
  /\ wakePc' = "wait"
  /\ UNCHANGED <<isMatrix, syncKind, crashed, fatalLogged, mainPc, wg, initPc, wakeResult>>
  /\ UNCHANGED <<botVars, trigVars, dbVars, lifeVars, whVars, wfVars, rgVars>>

\* c, err := b.WakeUp(e)
BotWakeUp(b) ==
  /\ ~crashed
  /\ botPc[b] = "wakeUp"
  /\ \E o \in WakeUpOutcomes(b) :
       /\ botOk' = [botOk EXCEPT ![b] = IF o.err THEN "fail" ELSE "ok"]
       /\ botPc' = [botPc EXCEPT ![b] = IF o.err THEN "appendRead" ELSE "mapWrite"]
  /\ UNCHANGED <<nBots, spawned, wg2, botLocal, failedWakeUps, eBots, raced>>
  /\ UNCHANGED <<startVars, trigVars, dbVars, lifeVars, whVars, wfVars, rgVars>>

\* failedWakeUps = append(failedWakeUps, b.ID), first half: the slice is read.
BotAppendRead(b) ==
  /\ ~crashed
  /\ botPc[b] = "appendRead"
  /\ botLocal' = [botLocal EXCEPT ![b] = failedWakeUps]
  /\ botPc' = [botPc EXCEPT ![b] = "appendWrite"]
  /\ UNCHANGED <<nBots, spawned, wg2, botOk, failedWakeUps, eBots, raced>>
  /\ UNCHANGED <<startVars, trigVars, dbVars, lifeVars, whVars, wfVars, rgVars>>

\* Second half: the slice read, with the id appended, is stored back.
BotAppendWrite(b) ==
  /\ ~crashed
  /\ botPc[b] = "appendWrite"
  /\ failedWakeUps' = Append(botLocal[b], b)
  /\ botLocal' = [botLocal EXCEPT ![b] = <<>>]
  /\ botPc' = [botPc EXCEPT ![b] = "mapWrite"]
  /\ UNCHANGED <<nBots, spawned, wg2, botOk, eBots, raced>>
  /\ UNCHANGED <<startVars, trigVars, dbVars, lifeVars, whVars, wfVars, rgVars>>

\* e.bots[b.ID] = c begins; no lock is taken.
BotMapWriteBegin(b) ==
  /\ ~crashed
  /\ botPc[b] = "mapWrite"
  /\ botPc' = [botPc EXCEPT ![b] = "inMapWrite"]
  /\ raced' = IF \E o \in BotIds : botPc[o] = "inMapWrite"
              THEN raced \cup {b} \cup {o \in BotIds : botPc[o] = "inMapWrite"}
              ELSE raced
  /\ UNCHANGED <<nBots, spawned, wg2, botOk, botLocal, failedWakeUps, eBots>>
  /\ UNCHANGED <<startVars, trigVars, dbVars, lifeVars, whVars, wfVars, rgVars>>

\* e.bots[b.ID] = c ends and the goroutine with it (wg.Done()).
BotMapWriteEnd(b) ==
  /\ ~crashed
  /\ botPc[b] = "inMapWrite"
  /\ \E o \in MapWriteOutcomes(b \in raced) :
       /\ eBots' = IF o = "stored"
                   THEN (b :> (IF botOk[b] = "ok" THEN b ELSE NilClient)) @@ eBots
                   ELSE eBots
       /\ crashed' = (o = "fatal")
       /\ botPc' = [botPc EXCEPT ![b] = IF o = "fatal" THEN @ ELSE "done"]
       /\ wg2' = IF o = "fatal" THEN wg2 ELSE wg2 - 1
  /\ raced' = raced \ {b}
  /\ UNCHANGED <<nBots, spawned, botOk, botLocal, failedWakeUps>>
  /\ UNCHANGED <<isMatrix, syncKind, fatalLogged, mainPc, wg, initPc, wakePc, wakeResult>>
  /\ UNCHANGED <<trigVars, dbVars, lifeVars, whVars, wfVars, rgVars>>

\* wg.Wait() returns and wakeUpMatrixBots returns: an error naming
\* failedWakeUps when it is not empty, nil otherwise.
WakeReturn ==
  /\ ~crashed
  /\ wakePc = "wait"
  /\ wg2 = 0
  /\ wakeResult' = [returned |-> TRUE, ok |-> Len(failedWakeUps) = 0, ids |-> failedWakeUps]
  /\ wakePc' = "returned"
  /\ UNCHANGED <<isMatrix, syncKind, crashed, fatalLogged, mainPc, wg, initPc>>
  /\ UNCHANGED <<botVars, trigVars, dbVars, lifeVars, whVars, wfVars, rgVars>>

\* StartUp's goroutine after wakeUpMatrixBots: an error is fatal, otherwise
\* the goroutine ends (wg.Done()).
WakeTaskEnd ==
  /\ ~crashed
  /\ wakePc = "returned"
  /\ IF wakeResult.ok
     THEN /\ wakePc' = "done"
          /\ wg' = wg - 1
          /\ UNCHANGED <<crashed, fatalLogged>>
     ELSE /\ Fatal
          /\ UNCHANGED <<wakePc, wg>>
  /\ UNCHANGED <<isMatrix, syncKind, mainPc, initPc, wakeResult>>
  /\ UNCHANGED <<botVars, trigVars, dbVars, lifeVars, whVars, wfVars, rgVars>>

(***************************************************************************)
(* Run and the poll scheduler                                              *)
(***************************************************************************)
\* Run: go e.runPoller(), then runWebhookListener, where the caller stays;
\* an error of ListenAndServe is fatal.
Run ==
  /\ ~crashed
  /\ mainPc = "startedUp"
  /\ pollerPc' = "started"
  /\ mainPc' = "running"
  /\ UNCHANGED <<isMatrix, syncKind, crashed, fatalLogged, wg, initPc, wakePc, wakeResult>>
  /\ UNCHANGED <<trigEngine, trigWebhook, trigPoll, pollStarted>>
  /\ UNCHANGED <<botVars, dbVars, lifeVars, whVars, wfVars, rgVars>>

ListenFails ==
  /\ ~crashed
  /\ mainPc = "running"
  /\ Fatal
  /\ UNCHANGED <<isMatrix, syncKind, mainPc, wg, initPc, wakePc, wakeResult>>
  /\ UNCHANGED <<botVars, trigVars, dbVars, lifeVars, whVars, wfVars, rgVars>>

\* runPoller: a goroutine calling setup is started for every trigger of
\* e.triggers["poll"].
runPoller ==
  /\ ~crashed
  /\ pollerPc = "started"
  /\ pollStarted' = pollStarted \cup {trigPoll[n] : n \in DOMAIN trigPoll}
  /\ pollerPc' = "done"
  /\ UNCHANGED <<trigEngine, trigWebhook, trigPoll>>
  /\ UNCHANGED <<startVars, botVars, dbVars, lifeVars, whVars, wfVars, rgVars>>

(***************************************************************************)
(* The webhook listener                                                    *)
(***************************************************************************)
\* A URL path is a sequence of path pieces; "/" is a piece of its own.
ListenerPrefix == <<"/", "webhooks-listener", "/">>

\* strings.HasPrefix, strings.TrimPrefix, strings.TrimSuffix
HasPrefix(s, pre) == Len(s) >= Len(pre) /\ SubSeq(s, 1, Len(pre)) = pre

TrimPrefix(s, pre) == IF HasPrefix(s, pre) THEN SubSeq(s, Len(pre) + 1, Len(s)) ELSE s

TrimSuffix(s, suf) ==
  IF Len(s) >= Len(suf) /\ SubSeq(s, Len(s) - Len(suf) + 1, Len(s)) = suf
  THEN SubSeq(s, 1, Len(s) - Len(suf))
  ELSE s

\* The string a sequence of pieces spells.
RECURSIVE Join(_)
Join(s) == IF s = <<>> THEN "" ELSE Head(s) \o Join(Tail(s))

\* A suffix that does not depend on the path.
suffixAlwaysFoo(path) == "foo"

\* suffix := strings.TrimSuffix(strings.TrimPrefix(path, prefix), "/")
suffixOf(path) == Join(TrimSuffix(TrimPrefix(path, ListenerPrefix), <<"/">>))

\* url.Values[key]: the values given for key, in order; empty when the key
\* is absent. pairs is a sequence of <<key, value>>.
RECURSIVE Values(_, _)
Values(pairs, key) ==
  IF pairs = <<>> THEN <<>>
  ELSE IF Head(pairs)[1] = key THEN <<Head(pairs)[2]>> \o Values(Tail(pairs), key)
  ELSE Values(Tail(pairs), key)

\* url.Values.Get: the first value of key, "" when there is none.
Get(pairs, key) == IF Values(pairs, key) = <<>> THEN "" ELSE Values(pairs, key)[1]

\* A decoder that fills no field.
jsonFieldNone(pairs, key) == ""

\* json.Decoder.Decode into a payloadData: a body that is not a JSON
\* object of string fields is an error; of a repeated key the last value
\* stays, a field without key keeps its zero value.
jsonField(pairs, key) ==
  LET vs == Values(pairs, key) IN IF vs = <<>> THEN "" ELSE vs[Len(vs)]

decodeJSON(body) ==
  IF body.syntax # "json" THEN [err |-> TRUE, data |-> payloadData("", "")]
  ELSE [err |-> FALSE,
        data |-> payloadData(jsonField(body.fields, "message"),
                             jsonField(body.fields, "room"))]

\* http.Request.ParseForm of a POST with a form-urlencoded Content-Type:
\* r.Form holds the body's pairs, then the URL query's. A body that does
\* not unescape is an error; the text of a JSON object parses as one key
\* that is neither message nor room.
ParseForm(req) ==
  CASE req.body.syntax = "form" -> [err |-> FALSE, Form |-> req.body.fields \o req.query]
    [] req.body.syntax = "json" -> [err |-> FALSE, Form |-> req.query]
    [] OTHER -> [err |-> TRUE, Form |-> <<>>]

\* What the body of the handler computes for a request, given the trigger
\* table: the response ("404", "400"), "panic" when the handler panics
\* (net/http recovers it and drops the connection without a response), or
\* "process" with the trigger and the payload t.process is called with.
Outcome(st, t, m, r) == [status |-> st, trigger |-> t, payload |-> payloadData(m, r)]

\* case "GET"
handleGET(req, t) ==
  LET messageSlice == Values(req.query, "message")
      roomSlice == Values(req.query, "room")
  IN  IF messageSlice = <<>> THEN Outcome("400", 0, "", "")
      ELSE IF roomSlice # <<>> /\ Len(roomSlice) = 1 /\ roomSlice[1] = ""
      THEN Outcome("400", 0, "", "")
      ELSE Outcome("parsed", t, messageSlice[1],
                   IF roomSlice # <<>> THEN roomSlice[1] ELSE "")

\* case "POST": Values("Content-Type")[0] of a request without that header
\* is an index out of range.
handlePOST(req, t) ==
  IF req.ctype = <<>> THEN Outcome("panic", 0, "", "")
  ELSE CASE req.ctype[1] = "application/json" ->
              LET d == decodeJSON(req.body)
              IN  IF d.err THEN Outcome("panic", 0, "", "")
                  ELSE Outcome("parsed", t, d.data.Message, d.data.Room)
         [] req.ctype[1] = "application/x-www-form-urlencoded" ->
              LET f == ParseForm(req)
              IN  IF f.err THEN Outcome("panic", 0, "", "")
                  ELSE Outcome("parsed", t, Get(f.Form, "message"), Get(f.Form, "room"))
         [] OTHER -> Outcome("parsed", t, "", "")

\* if message == ""
noMessage(message) == message = ""

\* !strings.HasPrefix(r.URL.Path, "/webhooks-listener/")
outsidePrefix(path) == ~HasPrefix(path, ListenerPrefix)

handle(req, table) ==
  IF outsidePrefix(req.path) THEN Outcome("404", 0, "", "")
  ELSE IF suffixOf(req.path) \notin DOMAIN table THEN Outcome("404", 0, "", "")
  ELSE LET t == table[suffixOf(req.path)]
           parsed == CASE req.method = "GET" -> handleGET(req, t)
                       [] req.method = "POST" -> handlePOST(req, t)
                       [] OTHER -> Outcome("parsed", t, "", "")
       IN  IF parsed.status # "parsed" THEN parsed
           ELSE IF noMessage(parsed.payload.Message) THEN Outcome("400", 0, "", "")
           ELSE [parsed EXCEPT !.status = "process"]

\* The requests tried. Parameter lists are sequences of <<key, value>>, as
\* they stand in a URL query or in a body.
Paths ==
  { ListenerPrefix \o <<"foo">>,
    ListenerPrefix \o <<"foo", "/">>,
    ListenerPrefix \o <<"foo", "/", "/">>,
    ListenerPrefix \o <<"bar">>,
    ListenerPrefix,
    <<"/", "webhooks-listener">>,
    <<"/", "foo">> }

Methods == {"GET", "POST", "PUT"}

ParamLists ==
  { <<>>,
    << <<"message", "x">> >>,
    << <<"message", "">> >>,
    << <<"room", "!abc:server">> >>,
    << <<"message", "x">>, <<"room", "!abc:server">> >>,
    << <<"room", "!abc:server">>, <<"message", "throwerr">> >>,
    << <<"message", "x">>, <<"room", "">> >>,
    << <<"message", "">>, <<"room", "!abc:server">> >>,
    << <<"message", "x">>, <<"message", "">> >>,
    << <<"message", "">>, <<"message", "x">> >>,
    << <<"message", "x">>, <<"room", "">>, <<"room", "!abc:server">> >> }

ContentTypes ==
  { <<>>, <<"application/json">>, <<"application/x-www-form-urlencoded">>,
    <<"text/plain">> }

Bodies ==
  [syntax : {"json", "form"}, fields : ParamLists]
    \cup {[syntax |-> "garbage", fields |-> <<>>]}

Requests ==
  [path : Paths, method : Methods, query : ParamLists, ctype : ContentTypes,
   body : Bodies]

\* The listener's handler function, up to its call of t.process, run on
\* its own goroutine r for the request req.
HandleRequest(r, req) ==
  /\ ~crashed
  /\ mainPc = "running"
  /\ reqCount < MaxRequests
  /\ handlers[r].status # "process"
  /\ runs[r].pc = "idle"
  /\ reqCount' = reqCount + 1
  /\ handlers' = [handlers EXCEPT ![r] = [req |-> req] @@ handle(req, trigWebhook)]
  /\ UNCHANGED <<startVars, botVars, trigVars, dbVars, lifeVars, wfVars, rgVars>>

\* webhookt.process: the workflow bound to the trigger.
boundWorkflow(t) == dbTriggers[t].workflow_id

\* t.process(payload): the trigger's workflow is run with the payload, on
\* the handler's goroutine.
Process(r) ==
  /\ handlers[r].status = "process"
  /\ RunEnter(r, boundWorkflow(handlers[r].trigger), handlers[r].payload)

\* t.process has returned and so does the handler: the response is 200.
Respond(r) ==
  /\ ~crashed
  /\ handlers[r].status = "process"
  /\ runs[r].pc = "done"
  /\ handlers' = [handlers EXCEPT ![r].status = "200"]
  /\ runs' = [runs EXCEPT ![r] = IdleRun]
  /\ UNCHANGED <<debug, workflows, stepLog, logLines, reqCount>>
  /\ UNCHANGED <<startVars, botVars, trigVars, dbVars, lifeVars, rgVars>>

(***************************************************************************)
(* The engine's specification                                              *)
(***************************************************************************)
StepRecords == [workflow_id : WorkflowIds, impact : Impacts]

Init ==
  /\ \E m \in BOOLEAN, k \in {"mock", "longRunning"} : NewEngine(m, k)
  /\ \E ts \in SeqsUpTo(TriggerRecords, MaxTriggers), n \in 0..MaxBots,
        ws \in SUBSET WorkflowIds, ss \in SeqsUpTo(StepRecords, MaxSteps) :
       Database(ts, n, ws, ss)
  /\ workflows = EmptyMap
  /\ NewRegistry("server")
  /\ NoRun

\* An engine over a storage that holds bots and nothing else.
StartUpInit ==
  /\ \E m \in BOOLEAN, k \in {"mock", "longRunning"} : NewEngine(m, k)
  /\ \E n \in 0..MaxBots : Database(<<>>, n, {}, <<>>)
  /\ workflows = EmptyMap
  /\ NewRegistry("server")
  /\ NoRun

\* An engine without Matrix, over a storage that holds triggers.
NoMatrixInit ==
  /\ NewEngine(FALSE, "mock")
  /\ \E ts \in SeqsUpTo(TriggerRecords, MaxTriggers) : Database(ts, 0, {}, <<>>)
  /\ workflows = EmptyMap
  /\ NewRegistry("server")
  /\ NoRun

\* An engine without Matrix that has loaded the triggers ts, the workflows
\* ws and the steps ss, and has reached Run: the listener serves, the poll
\* scheduler has gone through its triggers.
RunningEngine(ts, ws, ss) ==
  LET st == registerTriggers(ts, 1,
              [engine |-> {}, webhook |-> EmptyMap, poll |-> EmptyMap])
      loaded == loadSteps(ss, 1, loadWorkflows(ws))
  IN  /\ Database(ts, 0, ws, ss)
      /\ isMatrix = FALSE
      /\ syncKind = "mock"
      /\ crashed = FALSE
      /\ fatalLogged = FALSE
      /\ dbClosed = FALSE
      /\ startUps = 1
      /\ mainPc = "running"
      /\ wg = 0
      /\ initPc = "none"
      /\ wakePc = "none"
      /\ wakeResult = [returned |-> FALSE, ok |-> FALSE, ids |-> <<>>]
      /\ nBots = 0
      /\ spawned = 0
      /\ wg2 = 0
      /\ botPc = [b \in BotIds |-> "none"]
      /\ botOk = [b \in BotIds |-> "none"]
      /\ botLocal = [b \in BotIds |-> <<>>]
      /\ failedWakeUps = <<>>
      /\ eBots = EmptyMap
      /\ raced = {}
      /\ trigEngine = st.engine
      /\ trigWebhook = st.webhook
      /\ trigPoll = st.poll
      /\ pollerPc = "done"
      /\ pollStarted = {trigPoll[n] : n \in DOMAIN trigPoll}
      /\ ~loaded.panic
      /\ workflows = loaded.workflows

\* A serving engine with the webhook trigger w1 at suffix foo, bound to
\* workflow 1 of one step.
WebhookInit ==
  /\ RunningEngine(<<webhookt("w1", "foo", 1)>>, {1},
                   <<[workflow_id |-> 1, impact |-> "a"]>>)
  /\ NewRegistry("server")
  /\ NoRun

\* The listener's first request, of any shape.
FirstRequest ==
  /\ reqCount = 0
  /\ \E req \in Requests : HandleRequest(1, req)

\* One request is served.
WebhookNext ==
  \/ FirstRequest
  \/ Process(1)
  \/ RunCall(1)
  \/ RunReturn(1)
  \/ RunExit(1)
  \/ Respond(1)

WebhookSpec == WebhookInit /\ [][WebhookNext]_vars

\* The requests two callers send at the same time: valid GETs to foo.
ConcurrentRequests ==
  {[path |-> ListenerPrefix \o <<"foo">>, method |-> "GET",
    query |-> << <<"message", m>> >>, ctype |-> <<>>,
    body |-> [syntax |-> "form", fields |-> <<>>]] : m \in {"x", "throw"}}

\* A serving engine with the webhook trigger w1 at suffix foo, bound to
\* workflow 1 of two steps.
ConcurrentInit ==
  /\ RunningEngine(<<webhookt("w1", "foo", 1)>>, {1},
                   <<[workflow_id |-> 1, impact |-> "a"],
                     [workflow_id |-> 1, impact |-> "b"]>>)
  /\ NewRegistry("server")
  /\ NoRun

\* net/http serves every request on a goroutine of its own.
ConcurrentNext ==
  \E r \in RunIds :
    \/ \E req \in ConcurrentRequests : HandleRequest(r, req)
    \/ Process(r)
    \/ RunCall(r)
    \/ RunReturn(r)
    \/ RunExit(r)
    \/ Respond(r)

ConcurrentSpec == ConcurrentInit /\ [][ConcurrentNext]_vars

\* The steps the program takes on its own.
Progress ==
  \/ LoadDB
  \/ HandleTOMLDefinitions
  \/ LoadData
  \/ StartUpSpawn
  \/ StartUpNoMatrix
  \/ StartUpWait
  \/ InitLogin
  \/ InitSyncReturnsNil
  \/ WakeGetBots
  \/ WakeSpawn
  \/ WakeLoopEnd
  \/ \E b \in BotIds : BotWakeUp(b)
  \/ \E b \in BotIds : BotAppendRead(b)
  \/ \E b \in BotIds : BotAppendWrite(b)
  \/ \E b \in BotIds : BotMapWriteBegin(b)
  \/ \E b \in BotIds : BotMapWriteEnd(b)
  \/ WakeReturn
  \/ WakeTaskEnd
  \/ Run
  \/ runPoller

\* Errors that arrive from outside once the program waits in a call.
Failure ==
  \/ InitSyncReturnsError
  \/ ListenFails

Next == Progress \/ Failure

Spec == Init /\ [][Next]_vars

StartUpSpec == StartUpInit /\ [][Next]_vars

\* The Go scheduler runs every goroutine that can take a step.
FairStartUpSpec == StartUpSpec /\ WF_vars(Progress)

\* Without Matrix, StartUp starts no goroutine.
NoMatrixNext ==
  \/ LoadDB
  \/ HandleTOMLDefinitions
  \/ LoadData
  \/ StartUpNoMatrix
  \/ Run
  \/ runPoller
  \/ ListenFails

NoMatrixSpec == NoMatrixInit /\ [][NoMatrixNext]_vars

(***************************************************************************)
(* Claims about start-up and wakeUpMatrixBots (checked under StartUpSpec)  *)
(***************************************************************************)
SeqToSet(q) == {q[i] : i \in 1..Len(q)}

FailedBots == {b \in 1..nBots : botOk[b] = "fail"}

OkBots == {b \in 1..nBots : botOk[b] = "ok"}

\* C4: wakeUpMatrixBots returns success exactly when no bot's wake-up
\* failed, and otherwise an error whose ids are exactly the bots whose
\* wake-up failed.
C4_ReportsExactlyTheFailedBots ==
  wakeResult.returned =>
    /\ wakeResult.ok <=> FailedBots = {}
    /\ ~wakeResult.ok => SeqToSet(wakeResult.ids) = FailedBots

\* C5: when wakeUpMatrixBots returns, every bot whose wake-up succeeded has
\* its own session in engine.bots under its id.
C5_SuccessfulBotsAreStored ==
  wakeResult.returned =>
    \A b \in OkBots : b \in DOMAIN eBots /\ eBots[b] = b

\* C6: no two wake-up tasks are at the same time inside a write to
\* engine.bots, nor inside the append to failedWakeUps.
C6_SharedWritesAreExclusive ==
  /\ Cardinality({b \in BotIds : botPc[b] = "inMapWrite"}) <= 1
  /\ Cardinality({b \in BotIds : botPc[b] = "appendWrite"}) <= 1

\* C7: with isMatrix, StartUp has not returned (and Run has not begun)
\* unless the initMatrixClient task and the wake-up task have both ended.
C7_StartUpJoinsBothTasks ==
  (isMatrix /\ mainPc \in {"startedUp", "running"}) =>
    (initPc = "done" /\ wakePc = "done")

C7_Witness ==
  /\ isMatrix
  /\ mainPc = "startedUp"
  /\ initPc = "done"
  /\ wakePc = "done"
  /\ nBots = 2
  /\ OkBots = {1, 2}

\* C8 (checked under FairStartUpSpec): with isMatrix and a client whose
\* Sync is long-running, StartUp eventually returns unless a start-up step
\* failed (every such failure ends the process).
C8_StartUpEventuallyReturns ==
  (isMatrix /\ syncKind = "longRunning") => <>(mainPc = "startedUp" \/ crashed)

(***************************************************************************)
(* Claims about the poll scheduler (checked under NoMatrixSpec)             *)
(***************************************************************************)
RegisteredPollTriggers == {i \in trigEngine : dbTriggers[i].kind = "poll"}

\* C9: once runPoller has gone through the poll triggers, every trigger
\* registered by registerPollTrigger has had its setup task started; the
\* webhook table, which the dispatcher reads, holds no poll trigger.
C9_RegisteredPollTriggersAreStarted ==
  /\ pollerPc = "done" => RegisteredPollTriggers \subseteq pollStarted
  /\ \A x \in DOMAIN trigWebhook : dbTriggers[trigWebhook[x]].kind = "webhook"

(***************************************************************************)
(* Claims about the webhook listener (checked under WebhookSpec)            *)
(***************************************************************************)
\* The paths the listener answers for: the prefix, a registered suffix and
\* at most one trailing slash.
RegisteredPath(path) ==
  \E x \in DOMAIN trigWebhook :
    path \in {ListenerPrefix \o <<x>>, ListenerPrefix \o <<x, "/">>}

\* The handler has taken a request and no workflow was invoked for it.
NoWorkflowInvoked ==
  /\ handlers[1].trigger = 0
  /\ runs[1].pc = "idle"
  /\ stepLog = <<>>

\* C14: a request whose path is outside the listener prefix, or whose
\* suffix has no registered webhook trigger, is answered 404 and invokes no
\* workflow, whatever its method, its parameters and its body.
C14_UnknownRouteIs404 ==
  (handlers[1].status # "none" /\ ~RegisteredPath(handlers[1].req.path)) =>
    (handlers[1].status = "404" /\ NoWorkflowInvoked)

C14_Witness ==
  /\ handlers[1].status = "404"
  /\ handlers[1].req.path = ListenerPrefix \o <<"bar">>
  /\ handlers[1].req.method = "POST"
  /\ handlers[1].req.ctype = <<"application/json">>
  /\ handlers[1].req.body = [syntax |-> "json", fields |-> << <<"message", "x">> >>]

\* What a request's parameters give for key: its first value, "" when the
\* key is absent.
First(pairs, key) ==
  IF \E i \in 1..Len(pairs) : pairs[i][1] = key
  THEN pairs[CHOOSE i \in 1..Len(pairs) :
               /\ pairs[i][1] = key
               /\ \A j \in 1..(i - 1) : pairs[j][1] # key][2]
  ELSE ""

Present(pairs, key) == \E i \in 1..Len(pairs) : pairs[i][1] = key

\* The message a POST body gives when decoded per the Content-Type: none
\* without a Content-Type, with an unsupported one or with a malformed body.
BodyMessage(req) ==
  IF req.ctype = <<>> THEN ""
  ELSE IF req.ctype[1] = "application/json" /\ req.body.syntax = "json"
  THEN First(req.body.fields, "message")
  ELSE IF req.ctype[1] = "application/x-www-form-urlencoded" /\ req.body.syntax = "form"
  THEN First(req.body.fields, "message")
  ELSE ""

\* A request that yields no usable message.
NoUsableMessage(req) ==
  \/ /\ req.method = "GET"
     /\ \/ First(req.query, "message") = ""
        \/ /\ Present(req.query, "room")
           /\ \A i \in 1..Len(req.query) : req.query[i][1] = "room" => req.query[i][2] = ""
  \/ /\ req.method = "POST"
     /\ BodyMessage(req) = ""

\* C15: a request to a registered suffix that yields no usable message is
\* answered 400 and invokes no workflow.
C15_NoUsableMessageIs400 ==
  (/\ handlers[1].status # "none"
   /\ RegisteredPath(handlers[1].req.path)
   /\ NoUsableMessage(handlers[1].req)) =>
    (handlers[1].status = "400" /\ NoWorkflowInvoked)

\* Each key stands at most once in the parameter list.
UniqueKeys(pairs) ==
  \A i, j \in 1..Len(pairs) : pairs[i][1] = pairs[j][1] => i = j

\* A valid request: a registered path and either a GET with a message and
\* no empty room, or a POST whose JSON or form-urlencoded body, named by
\* its Content-Type, carries a message.
ValidRequest(req) ==
  /\ RegisteredPath(req.path)
  /\ \/ /\ req.method = "GET"
        /\ First(req.query, "message") # ""
        /\ \A i \in 1..Len(req.query) : req.query[i][1] = "room" => req.query[i][2] # ""
     \/ /\ req.method = "POST"
        /\ req.query = <<>>
        /\ UniqueKeys(req.body.fields)
        /\ BodyMessage(req) # ""

\* The message and room a valid request carries.
Carried(req) ==
  IF req.method = "GET"
  THEN payloadData(First(req.query, "message"), First(req.query, "room"))
  ELSE payloadData(First(req.body.fields, "message"), First(req.body.fields, "room"))

\* The POST request to foo that carries the fields in the given syntax.
PostOf(syntax, ctype, fields) ==
  [path |-> ListenerPrefix \o <<"foo">>, method |-> "POST", query |-> <<>>,
   ctype |-> <<ctype>>, body |-> [syntax |-> syntax, fields |-> fields]]

C17_PayloadIsPerRun ==
  \A k \in 1..Len(stepLog) :
    stepLog[k].in =
      Fold(stepLog[k].p0, SubSeq(workflows[stepLog[k].w].steps, 1, stepLog[k].idx - 1))

(***************************************************************************)
(* Claims about the engine's lifecycle (checked under LifecycleSpec)        *)
(***************************************************************************)
\* The lifecycle state the engine is in.
Lifecycle ==
  CASE mainPc = "running" -> "Running"
    [] mainPc # "running" /\ dbClosed -> "ShutDown"
    [] mainPc = "created" /\ ~dbClosed -> "Created"
    [] mainPc \in {"storageConnected", "tomlDone"} /\ ~dbClosed -> "StorageConnected"
    [] mainPc \in {"dataLoaded", "wait"} /\ ~dbClosed -> "DataLoaded"
    [] mainPc = "startedUp" /\ ~dbClosed -> "ClientsReady"

\* The place of a lifecycle state in the order.
Rank(l) ==
  CASE l = "Created" -> 0
    [] l = "StorageConnected" -> 1
    [] l = "DataLoaded" -> 2
    [] l = "ClientsReady" -> 3
    [] l = "Running" -> 4
    [] l = "ShutDown" -> 5

\* C18: the lifecycle only moves forward: no call takes the engine from
\* Running or ShutDown back to an earlier state, and loadData completes at
\* most once.
C18_LifecycleOnlyMovesForward ==
  [][/\ Lifecycle \in {"Running", "ShutDown"} => Rank(Lifecycle') >= Rank(Lifecycle)
     /\ (mainPc = "tomlDone" /\ mainPc' = "dataLoaded") => startUps = 1]_vars

(***************************************************************************)
(* Claims about start-up failures (checked under FailureSpec)               *)
(***************************************************************************)
\* The engine has not reached Run: no poll task was started, no request
\* was taken.
NeverRan ==
  /\ mainPc # "running"
  /\ pollerPc = "none"
  /\ pollStarted = {}
  /\ reqCount = 0

\* C19: a failure met during start-up (storage connection or migration,
\* loading of triggers, workflows or steps, the primary client's login) is
\* fatal: the process ends there, and the engine never reaches Running.
C19_StartUpFailureIsFatal ==
  [][/\ (fatalLogged' /\ mainPc' # "running") => (crashed' /\ NeverRan')
     /\ crashed => UNCHANGED vars]_vars

C19_Witness ==
  /\ crashed
  /\ fatalLogged
  /\ isMatrix
  /\ mainPc = "wait"
  /\ initPc = "login"
  /\ Cardinality(trigEngine) = 1
  /\ NeverRan

\* C24: when wakeUpMatrixBots returns, the engine's bot map holds an entry
\* only for the bots whose wake-up succeeded: a bot whose wake-up failed
\* has no entry in it.
C24_FailedBotsHaveNoEntry ==
  wakeResult.returned => \A b \in FailedBots : b \notin DOMAIN eBots

(***************************************************************************)
(* Claims about the loaded workflows (checked under LoadSpec)               *)
(***************************************************************************)
\* The impacts of the step records of ss that carry the workflow id w, in
\* the order of ss.
RECURSIVE StepsFor(_, _)
StepsFor(ss, w) ==
  IF ss = <<>> THEN <<>>
  ELSE IF Head(ss).workflow_id = w THEN <<Head(ss).impact>> \o StepsFor(Tail(ss), w)
  ELSE StepsFor(Tail(ss), w)

\* The number of steps attached to the workflows of ids.
RECURSIVE AttachedSteps(_)
AttachedSteps(ids) ==
  IF ids = {} THEN 0
  ELSE LET w == CHOOSE x \in ids : TRUE
       IN  Len(workflows[w].steps) + AttachedSteps(ids \ {w})

\* loadData has returned.
DataLoaded == mainPc \in {"dataLoaded", "startedUp", "running"}

\* C21: once loadData has returned, each workflow's steps are the loaded
\* step records that carry its id, in load order, every loaded step is
\* attached to one workflow, and neither a run, nor the dispatch of a
\* request, nor the poller changes that.
C21_StepsAreLoadedInOrder ==
  DataLoaded =>
    /\ DOMAIN workflows = dbWorkflows
    /\ \A w \in DOMAIN workflows : workflows[w].steps = StepsFor(dbSteps, w)
    /\ AttachedSteps(DOMAIN workflows) = Len(dbSteps)

C21_Witness ==
  /\ DataLoaded
  /\ DOMAIN workflows = {1, 2}
  /\ dbSteps = <<[workflow_id |-> 1, impact |-> "a"],
                 [workflow_id |-> 2, impact |-> "err"],
                 [workflow_id |-> 1, impact |-> "b"]>>
  /\ workflows[1].steps = <<"a", "b">>
  /\ workflows[2].steps = <<"err">>
  /\ pollerPc = "done"
  /\ handlers[1].status = "200"
  /\ Len(stepLog) = 2

(***************************************************************************)
(* The bot registry                                                        *)
(***************************************************************************)
Bots == [Username : Usernames, Primary : BOOLEAN]

\* _, ok := r.clients[bot.Username]
alreadyKnownNever(username) == FALSE

alreadyKnown(username) == username \in DOMAIN regClients

\* r.clients[bot.Username] = client, also after an error
clientsAfterStoresOnError(err, username, client) ==
  IF err = "known" THEN regClients ELSE (username :> client) @@ regClients

\* r.clients after Append: the session is stored when neither Login nor
\* OnRoomInvite returned an error.
clientsAfter(err, username, client) ==
  IF err = "none" THEN (username :> client) @@ regClients ELSE regClients

\* registry.Append. loginOk and hookOk are what client.Login and
\* client.OnRoomInvite answer.
RegistryAppend(bot, client, loginOk, hookOk) ==
  LET err == IF alreadyKnown(bot.Username) THEN "known"
             ELSE IF ~loginOk THEN "login"
             ELSE IF ~hookOk THEN "hook"
             ELSE "none"
  IN  /\ appendCount < MaxAppends
      /\ appendCount' = appendCount + 1
      /\ primaryUsername' = IF bot.Primary THEN bot.Username ELSE primaryUsername
      /\ lastAppend' = [user |-> bot.Username, client |-> client, err |-> err]
      /\ loginCalls' = IF err = "known" THEN loginCalls
                       ELSE [loginCalls EXCEPT ![client] = @ + 1]
      /\ hooked' = IF err = "none" THEN hooked \cup {client} ELSE hooked
      /\ regClients' = clientsAfter(err, bot.Username, client)
      /\ failedFor' = IF err \in {"login", "hook"}
                      THEN failedFor \cup {bot.Username} ELSE failedFor
      /\ storedAsPrimary' = IF err = "none" /\ bot.Primary
                            THEN storedAsPrimary \cup {bot.Username}
                            ELSE storedAsPrimary
      /\ UNCHANGED inviteVars
      /\ UNCHANGED <<wfVars, enVars>>

\* room.ID: a local part and the domain of the homeserver that owns the
\* room.
RoomIDs == [local : {"!abc"}, domain : Domains]

\* room.ID.HomeserverDomain
HomeserverDomain(roomID) == roomID.domain

\* roomID.HomeserverDomain() != r.homeserverDomain is false
inOurHomeserverAlways(roomID) == TRUE

inOurHomeserver(roomID) == HomeserverDomain(roomID) = homeserverDomain

\* The callback Append hands to client.OnRoomInvite, called by a client
\* that holds it with an invitation to roomID. joinOk is what
\* client.JoinRoom answers.
OnRoomInvite(client, roomID, joinOk) ==
  /\ client \in hooked
  /\ invited' = invited \cup {<<client, roomID>>}
  /\ IF ~inOurHomeserver(roomID)
     THEN /\ lastInvite' = [client |-> client, room |-> roomID, did |-> "ignored"]
          /\ UNCHANGED joinCalls
     ELSE /\ joinCalls' = joinCalls \cup {<<client, roomID>>}
          /\ lastInvite' = [client |-> client, room |-> roomID,
                            did |-> IF joinOk THEN "joined" ELSE "joinFailed"]
  /\ UNCHANGED homeserverDomain
  /\ UNCHANGED <<regClients, primaryUsername, loginCalls, hooked, lastAppend, appendCount>>
  /\ UNCHANGED <<failedFor, storedAsPrimary>>
  /\ UNCHANGED <<wfVars, enVars>>

RegistryInit ==
  /\ NewEngine(FALSE, "mock")
  /\ Database(<<>>, 0, {}, <<>>)
  /\ workflows = EmptyMap
  /\ \E d \in Domains : NewRegistry(d)
  /\ NoRun
  /\ ~debug

RegistryNext ==
  \/ \E bot \in Bots, client \in Clients, loginOk \in BOOLEAN, hookOk \in BOOLEAN :
       RegistryAppend(bot, client, loginOk, hookOk)
  \/ \E client \in Clients, roomID \in RoomIDs, joinOk \in BOOLEAN :
       OnRoomInvite(client, roomID, joinOk)

RegistrySpec == RegistryInit /\ [][RegistryNext]_vars

(***************************************************************************)
(* Claims about the bot registry (checked under RegistrySpec)               *)
(***************************************************************************)
\* C10: an Append for a username that already has a stored session returns
\* the "already known" error without calling Login, and no Append replaces
\* or removes a stored session.
C10_DuplicateAppendIsRejected ==
  [][/\ \A u \in DOMAIN regClients :
          u \in DOMAIN regClients' /\ regClients'[u] = regClients[u]
     /\ (appendCount' # appendCount /\ lastAppend'.user \in DOMAIN regClients) =>
          (lastAppend'.err = "known" /\ loginCalls' = loginCalls)]_vars

C10_Witness ==
  /\ lastAppend.err = "known"
  /\ lastAppend.user \in DOMAIN regClients
  /\ regClients[lastAppend.user] # lastAppend.client
  /\ loginCalls[lastAppend.client] = 0

\* C13: an invitation delivered to a session registered by Append leads to
\* a JoinRoom call for its room exactly when the room's homeserver domain
\* is the registry's configured one; an invitation from another domain is
\* ignored, with no join call and nothing reported.
C13_JoinsOnlyInOwnHomeserver ==
  /\ joinCalls \subseteq invited
  /\ \A iv \in invited :
       iv \in joinCalls <=> HomeserverDomain(iv[2]) = homeserverDomain
  /\ (lastInvite.did # "none" /\ HomeserverDomain(lastInvite.room) # homeserverDomain)
       => lastInvite.did = "ignored"

C13_Witness ==
  \E c \in DOMAIN regClients, here \in RoomIDs, there \in RoomIDs :
    /\ here.domain = homeserverDomain
    /\ there.domain # homeserverDomain
    /\ {<<regClients[c], here>>, <<regClients[c], there>>} \subseteq invited
    /\ <<regClients[c], here>> \in joinCalls
    /\ <<regClients[c], there>> \notin joinCalls

\* registry.GetClient: the stored session of identifier, or the error.
GetClient(identifier) ==
  IF identifier \in DOMAIN regClients
  THEN [client |-> regClients[identifier], err |-> FALSE]
  ELSE [client |-> "", err |-> TRUE]

\* C22: an Append whose Login, or whose wiring of the invite hook, fails
\* returns the error and stores no session: GetClient of its username
\* fails afterwards, and a later Append for a username whose Append failed
\* so, and which has no stored session, is not rejected as already known.
C22_FailedAppendStoresNothing ==
  [][appendCount' # appendCount =>
       /\ lastAppend'.err \in {"login", "hook"} =>
            /\ regClients' = regClients
            /\ GetClient(lastAppend.user)'.err
       /\ (lastAppend'.user \in failedFor /\ GetClient(lastAppend'.user).err) =>
            lastAppend'.err # "known"]_vars

C22_Witness ==
  /\ lastAppend.err = "none"
  /\ lastAppend.user \in failedFor
  /\ appendCount = 2
  /\ loginCalls[lastAppend.client] = 2
  /\ ~GetClient(lastAppend.user).err

\* registry.GetPrimaryClient: the stored session of the recorded primary
\* identity, or the error.
GetPrimaryClient ==
  IF primaryUsername \in DOMAIN regClients
  THEN [client |-> regClients[primaryUsername], err |-> FALSE]
  ELSE [client |-> "", err |-> TRUE]

\* C23: GetPrimaryClient answers a client only when that session was
\* stored by a successful Append of a bot marked primary; otherwise it
\* answers its error, and never the session of a bot appended as
\* non-primary.
C23_PrimaryClientWasStoredAsPrimary ==
  ~GetPrimaryClient.err => primaryUsername \in storedAsPrimary

\* C11: an Append rejected as a duplicate registration changes neither the
\* session map nor the recorded primary identity (nor, hence, what
\* GetPrimaryClient answers), also when the rejected bot is marked primary.
C11_RejectedAppendMutatesNothing ==
  [][(appendCount' # appendCount /\ lastAppend'.err = "known") =>
       /\ regClients' = regClients
       /\ primaryUsername' = primaryUsername
       /\ GetPrimaryClient' = GetPrimaryClient]_vars

\* The caller may call StartUp, Run and ShutDown in any order: the engine
\* checks none of them against what was called before.
LifecycleNext ==
  \/ NoMatrixNext
  \/ StartUpAgain
  \/ ShutDown

LifecycleSpec == NoMatrixInit /\ [][LifecycleNext]_vars

\* An engine, with or without Matrix, over a storage that holds the
\* webhook trigger w1 at suffix foo, its workflow 1 of one step, and bots.
FailureInit ==
  /\ \E m \in BOOLEAN, k \in {"mock", "longRunning"} : NewEngine(m, k)
  /\ \E n \in {0, 1} :
       Database(<<webhookt("w1", "foo", 1)>>, n, {1},
                <<[workflow_id |-> 1, impact |-> "a"]>>)
  /\ workflows = EmptyMap
  /\ NewRegistry("server")
  /\ NoRun

\* The listener serves requests one after the other.
ServeNext ==
  \/ \E req \in ConcurrentRequests : HandleRequest(1, req)
  \/ Process(1)
  \/ RunCall(1)
  \/ RunReturn(1)
  \/ RunExit(1)
  \/ Respond(1)

\* Start-up, with every failure it can meet, then Run and its requests.
FailureSpec == FailureInit /\ [][Next \/ ServeNext]_vars

\* The step records tried by the load: two of workflow 1, one of workflow 2.
LoadStepRecords ==
  {[workflow_id |-> 1, impact |-> "a"], [workflow_id |-> 1, impact |-> "b"],
   [workflow_id |-> 2, impact |-> "err"]}

\* An engine without Matrix over a storage that holds the webhook trigger
\* w1 at suffix foo, its workflow 1, possibly workflow 2, and steps.
LoadInit ==
  /\ NewEngine(FALSE, "mock")
  /\ \E ws \in {{1}, {1, 2}}, ss \in SeqsUpTo(LoadStepRecords, MaxSteps) :
       Database(<<webhookt("w1", "foo", 1)>>, 0, ws, ss)
  /\ workflows = EmptyMap
  /\ NewRegistry("server")
  /\ NoRun

\* Start-up without Matrix, then Run: the poller and the requests.
LoadSpec == LoadInit /\ [][NoMatrixNext \/ ServeNext]_vars

(***************************************************************************)
(* Claims about the webhook trigger table (checked under NoMatrixSpec)      *)
(***************************************************************************)
\* The triggers registerWebhookTrigger was called with for suffix x, as
\* indices into the load order.
RegisteredWithSuffix(x) ==
  {i \in trigEngine : dbTriggers[i].kind = "webhook" /\ dbTriggers[i].urlSuffix = x}

\* C12: a registerWebhookTrigger call for a suffix that is already
\* registered is rejected: every suffix stays bound to the first trigger
\* registered with it.
C12_SuffixStaysBoundToFirst ==
  \A x \in DOMAIN trigWebhook :
    \A i \in RegisteredWithSuffix(x) : trigWebhook[x] <= i

====
